---- MODULE Spec2Model ----
(***************************************************************************)
(* Model of DS_sample/Data_Cleaning.ipynb: a customer table is read from   *)
(* a delimited file and cleaned by six dataframe calls (cells 2 to 7).     *)
(*                                                                         *)
(* A text is a sequence of one-character strings. A value of the table is  *)
(* a record [t, s, n]: t is "na" (the missing marker, NaN/NaT), "str"      *)
(* (text s), "int" (number n) or "date" (n = year*10000+month*100+day).    *)
(* A dataframe is [columns, dtypes, rows]; a row is a tuple aligned with   *)
(* columns.                                                                *)
(***************************************************************************)
EXTENDS Integers, Sequences, FiniteSets, TLC

VARIABLES raw, df, prev, last, err, pc

vars == <<raw, df, prev, last, err, pc>>

----------------------------------------------------------------------------
(* Bounds of the model. *)

MaxRows == 2

----------------------------------------------------------------------------
(* Texts. *)

Whitespace == {" ", "\t", "\n"}

Digits == <<"0", "1", "2", "3", "4", "5", "6", "7", "8", "9">>

LowerLetters == <<"a", "b", "c", "d", "e", "f", "g", "h", "i", "j", "k", "l", "m",
                  "n", "o", "p", "q", "r", "s", "t", "u", "v", "w", "x", "y", "z">>

UpperLetters == <<"A", "B", "C", "D", "E", "F", "G", "H", "I", "J", "K", "L", "M",
                  "N", "O", "P", "Q", "R", "S", "T", "U", "V", "W", "X", "Y", "Z">>

IndexIn(c, seq) == IF \E i \in DOMAIN seq : seq[i] = c
                   THEN CHOOSE i \in DOMAIN seq : seq[i] = c
                   ELSE 0

(* str.lstrip / str.rstrip / str.strip: drop leading and trailing whitespace. *)
RECURSIVE LStrip(_)
LStrip(s) == IF s # <<>> /\ Head(s) \in Whitespace THEN LStrip(Tail(s)) ELSE s

RECURSIVE RStrip(_)
RStrip(s) == IF s # <<>> /\ s[Len(s)] \in Whitespace
             THEN RStrip(SubSeq(s, 1, Len(s) - 1))
             ELSE s

(* Variant: one leading whitespace character only. *)
StripFirstOnly(s) == IF s # <<>> /\ Head(s) \in Whitespace THEN Tail(s) ELSE s

Strip(s) == RStrip(LStrip(s))

(* str.upper, character by character. *)
UpperChar(c) == IF IndexIn(c, LowerLetters) # 0
                THEN UpperLetters[IndexIn(c, LowerLetters)]
                ELSE c

Upper(s) == [i \in DOMAIN s |-> UpperChar(s[i])]

IsDigits(s) == s # <<>> /\ \A i \in DOMAIN s : IndexIn(s[i], Digits) # 0

RECURSIVE ToInt(_)
ToInt(s) == IF s = <<>> THEN 0
            ELSE 10 * ToInt(SubSeq(s, 1, Len(s) - 1)) + (IndexIn(s[Len(s)], Digits) - 1)

----------------------------------------------------------------------------
(* Values. *)

NA == [t |-> "na", s |-> <<>>, n |-> 0]

StrV(s) == [t |-> "str", s |-> s, n |-> 0]

IntV(n) == [t |-> "int", s |-> <<>>, n |-> n]

DateV(y, m, d) == [t |-> "date", s |-> <<>>, n |-> y * 10000 + m * 100 + d]

IsNA(v) == v.t = "na"

IsLeap(y) == (y % 4 = 0 /\ y % 100 # 0) \/ y % 400 = 0

DaysIn(y, m) == IF m = 2 THEN (IF IsLeap(y) THEN 29 ELSE 28)
                ELSE IF m \in {4, 6, 9, 11} THEN 30 ELSE 31

(* The text form of the dates of customers_data.csv: YYYY-MM-DD. *)
IsIsoDate(s) ==
    /\ Len(s) = 10
    /\ s[5] = "-" /\ s[8] = "-"
    /\ IsDigits(SubSeq(s, 1, 4)) /\ IsDigits(SubSeq(s, 6, 7)) /\ IsDigits(SubSeq(s, 9, 10))
    /\ LET y == ToInt(SubSeq(s, 1, 4))
           m == ToInt(SubSeq(s, 6, 7))
           d == ToInt(SubSeq(s, 9, 10))
       IN  y >= 1 /\ m \in 1..12 /\ d \in 1..DaysIn(y, m)

ParseIso(s) == DateV(ToInt(SubSeq(s, 1, 4)), ToInt(SubSeq(s, 6, 7)), ToInt(SubSeq(s, 9, 10)))

----------------------------------------------------------------------------
(* Dataframes. *)

Col(d, j) == [i \in DOMAIN d.rows |-> d.rows[i][j]]

(* The positions of the columns labelled name: none when the label is absent,
   several when the label is duplicated. *)
Positions(d, name) == {j \in DOMAIN d.columns : d.columns[j] = name}

ThePosition(d, name) == CHOOSE j \in Positions(d, name) : TRUE

Result(d, e) == [df |-> d, err |-> e]

(* Keep the elements of seq whose index is in keep, in their order. *)
RECURSIVE KeepIndices(_, _, _)
KeepIndices(seq, keep, i) ==
    IF i > Len(seq) THEN <<>>
    ELSE (IF i \in keep THEN <<seq[i]>> ELSE <<>>) \o KeepIndices(seq, keep, i + 1)

(* pd.read_csv: an empty field is the missing marker; a column whose fields are
   all numbers or empty is numeric (int64, or float64 when a field is missing
   or there is no field at all in a non-empty table); any other column is an
   object column of texts. Header texts and field texts are kept as written:
   surrounding whitespace is not removed. *)
ReadCell(cell, numeric) ==
    IF cell = <<>> THEN NA
    ELSE IF numeric THEN IntV(ToInt(cell)) ELSE StrV(cell)

IsNumericColumn(cells) ==
    /\ cells # <<>>
    /\ \A i \in DOMAIN cells : cells[i] = <<>> \/ IsDigits(cells[i])

InferDtype(cells) ==
    IF ~IsNumericColumn(cells) THEN "object"
    ELSE IF \E i \in DOMAIN cells : cells[i] = <<>> THEN "float64" ELSE "int64"

ReadCsv(table) ==
    LET cells(j) == [i \in DOMAIN table.lines |-> table.lines[i][j]]
    IN  [columns |-> table.header,
         dtypes  |-> [j \in DOMAIN table.header |-> InferDtype(cells(j))],
         rows    |-> [i \in DOMAIN table.lines |->
                        [j \in DOMAIN table.header |->
                            ReadCell(table.lines[i][j], IsNumericColumn(cells(j)))]]]

----------------------------------------------------------------------------
(* Cell 2: df[c] = pd.to_datetime(df[c], errors='coerce').
   df[c] raises KeyError when no column is labelled c; when several are, df[c]
   is a frame and to_datetime raises ValueError (it wants year/month/day
   columns). A text in date form becomes its date, any other text the missing
   marker (errors='coerce'); a number is a count of nanoseconds since
   1970-01-01, which for the small numbers of the model is that day. *)
ToDatetimeValue(v) ==
    CASE v.t = "str"  -> IF IsIsoDate(v.s) THEN ParseIso(v.s) ELSE NA
      [] v.t = "int"  -> DateV(1970, 1, 1)
      [] OTHER        -> v

(* df[c] = values, for the one column at position j. *)
SetColumn(d, j, values, dtype) ==
    [d EXCEPT !.rows = [i \in DOMAIN d.rows |-> [d.rows[i] EXCEPT ![j] = values[i]]],
              !.dtypes = [d.dtypes EXCEPT ![j] = dtype]]

ToDatetime(values) == [i \in DOMAIN values |-> ToDatetimeValue(values[i])]

(* Variant: errors='raise'. *)
ParseDatesRaise(d, c) ==
    IF Positions(d, c) = {} THEN Result(d, "KeyError")
    ELSE IF Cardinality(Positions(d, c)) > 1 THEN Result(d, "ValueError")
    ELSE IF \E i \in DOMAIN d.rows : LET v == d.rows[i][ThePosition(d, c)]
                                     IN  v.t = "str" /\ ~IsIsoDate(v.s)
         THEN Result(d, "ValueError")
    ELSE Result(SetColumn(d, ThePosition(d, c), ToDatetime(Col(d, ThePosition(d, c))), "datetime64"),
                "none")

ParseDates(d, c) ==
    IF Positions(d, c) = {} THEN Result(d, "KeyError")
    ELSE IF Cardinality(Positions(d, c)) > 1 THEN Result(d, "ValueError")
    ELSE Result(SetColumn(d, ThePosition(d, c), ToDatetime(Col(d, ThePosition(d, c))), "datetime64"),
                "none")

(* Cell 3: df = df.dropna(subset=cols). KeyError when a label of cols is
   absent; a row is dropped when any column labelled by cols is missing. *)
(* Variant: how='all'. *)
DropNaAll(d, cols) ==
    IF \E k \in DOMAIN cols : Positions(d, cols[k]) = {} THEN Result(d, "KeyError")
    ELSE LET keep == {i \in DOMAIN d.rows :
                        \E k \in DOMAIN cols : \E j \in Positions(d, cols[k]) :
                            ~IsNA(d.rows[i][j])}
         IN  Result([d EXCEPT !.rows = KeepIndices(d.rows, keep, 1)], "none")

DropRowsWithMissing(d, cols) ==
    IF \E k \in DOMAIN cols : Positions(d, cols[k]) = {} THEN Result(d, "KeyError")
    ELSE LET keep == {i \in DOMAIN d.rows :
                        \A k \in DOMAIN cols : \A j \in Positions(d, cols[k]) :
                            ~IsNA(d.rows[i][j])}
         IN  Result([d EXCEPT !.rows = KeepIndices(d.rows, keep, 1)], "none")

(* Cell 4: df = df.drop_duplicates(). keep='first': a row goes when an earlier
   row has the same value in every column (missing equals missing). *)
(* Variants: keep='last'; one duplicate removed per call. *)
DeduplicateKeepLast(d) ==
    LET keep == {i \in DOMAIN d.rows : \A h \in (i + 1)..Len(d.rows) : d.rows[h] # d.rows[i]}
    IN  Result([d EXCEPT !.rows = KeepIndices(d.rows, keep, 1)], "none")

DeduplicateOne(d) ==
    LET dup  == {i \in DOMAIN d.rows : \E h \in 1..(i - 1) : d.rows[h] = d.rows[i]}
        keep == {i \in DOMAIN d.rows : i \notin dup \/ \E h \in dup : h < i}
    IN  Result([d EXCEPT !.rows = KeepIndices(d.rows, keep, 1)], "none")

Deduplicate(d) ==
    LET keep == {i \in DOMAIN d.rows : \A h \in 1..(i - 1) : d.rows[h] # d.rows[i]}
    IN  Result([d EXCEPT !.rows = KeepIndices(d.rows, keep, 1)], "none")

(* Cell 5: df.columns = df.columns.str.strip(). *)
(* Variant: one leading whitespace character only. *)
TrimFirstOnly(d) ==
    Result([d EXCEPT !.columns = [j \in DOMAIN d.columns |-> StripFirstOnly(d.columns[j])]],
           "none")

TrimColumnNames(d) ==
    Result([d EXCEPT !.columns = [j \in DOMAIN d.columns |-> Strip(d.columns[j])]], "none")

(* Cell 6: df[c] = df[c].fillna(v). KeyError when no column is labelled c;
   every column labelled c is filled. A column that had a missing value and
   was not an object column becomes one (v is a text). *)
FillNaValue(x, v) == IF IsNA(x) THEN v ELSE x

HasNA(d, j) == \E i \in DOMAIN d.rows : IsNA(d.rows[i][j])

(* Variants: an absent label creates the column; every value is overwritten. *)
FillOrCreate(d, c, v) ==
    IF Positions(d, c) = {}
    THEN Result([columns |-> Append(d.columns, c),
                 dtypes  |-> Append(d.dtypes, "object"),
                 rows    |-> [i \in DOMAIN d.rows |-> Append(d.rows[i], v)]], "none")
    ELSE Result([d EXCEPT
            !.rows = [i \in DOMAIN d.rows |-> [j \in DOMAIN d.columns |->
                        IF j \in Positions(d, c) THEN FillNaValue(d.rows[i][j], v)
                                                ELSE d.rows[i][j]]],
            !.dtypes = [j \in DOMAIN d.columns |->
                        IF j \in Positions(d, c) /\ HasNA(d, j) THEN "object" ELSE d.dtypes[j]]],
         "none")

FillAll(d, c, v) ==
    IF Positions(d, c) = {} THEN Result(d, "KeyError")
    ELSE Result([d EXCEPT
            !.rows = [i \in DOMAIN d.rows |-> [j \in DOMAIN d.columns |->
                        IF j \in Positions(d, c) THEN v ELSE d.rows[i][j]]],
            !.dtypes = [j \in DOMAIN d.columns |->
                        IF j \in Positions(d, c) /\ HasNA(d, j) THEN "object" ELSE d.dtypes[j]]],
         "none")

FillMissing(d, c, v) ==
    IF Positions(d, c) = {} THEN Result(d, "KeyError")
    ELSE Result([d EXCEPT
            !.rows = [i \in DOMAIN d.rows |-> [j \in DOMAIN d.columns |->
                        IF j \in Positions(d, c) THEN FillNaValue(d.rows[i][j], v)
                                                ELSE d.rows[i][j]]],
            !.dtypes = [j \in DOMAIN d.columns |->
                        IF j \in Positions(d, c) /\ HasNA(d, j) THEN "object" ELSE d.dtypes[j]]],
         "none")

(* Cell 7: df[c] = df[c].str.strip().str.upper(). KeyError when no column is
   labelled c. The .str accessor raises AttributeError on a frame (several
   columns labelled c), on a column that is not an object column, and on an
   object column whose present values are all numbers or all dates. Otherwise
   each text is stripped and upper-cased, and every other value becomes the
   missing marker. *)
KindsOf(d, j) == {d.rows[i][j].t : i \in DOMAIN d.rows} \ {"na"}

StrAccessorOk(d, j) ==
    /\ d.dtypes[j] = "object"
    /\ KindsOf(d, j) \notin {{"int"}, {"date"}}

(* Variant: no strip. *)
StrUpperOnly(v) == IF v.t = "str" THEN StrV(Upper(v.s)) ELSE NA

StrStripUpper(v) == IF v.t = "str" THEN StrV(Upper(Strip(v.s))) ELSE NA

StrStripUpperAll(values) == [i \in DOMAIN values |-> StrStripUpper(values[i])]

NormalizeCase(d, c) ==
    IF Positions(d, c) = {} THEN Result(d, "KeyError")
    ELSE IF Cardinality(Positions(d, c)) > 1 THEN Result(d, "AttributeError")
    ELSE IF ~StrAccessorOk(d, ThePosition(d, c)) THEN Result(d, "AttributeError")
    ELSE Result(SetColumn(d, ThePosition(d, c), StrStripUpperAll(Col(d, ThePosition(d, c))), "object"),
                "none")

----------------------------------------------------------------------------
(* The labels the notebook uses, and the texts of the model's input files. *)

SubscriptionDate == <<"S", "u", "b", "s", "c", "r", "i", "p", "t", "i", "o", "n", " ",
                      "D", "a", "t", "e">>

Email == <<"E", "m", "a", "i", "l">>

Phone1 == <<"P", "h", "o", "n", "e", " ", "1">>

City == <<"C", "i", "t", "y">>

Country == <<"C", "o", "u", "n", "t", "r", "y">>

Unknown == <<"U", "n", "k", "n", "o", "w", "n">>

Empty == <<>>

Chile == <<"c", "h", "i", "l", "e">>

ChilePadded == <<" ", "C", "h", "i", "l", "e", " ">>

ChileUpper == <<"C", "H", "I", "L", "E">>

Seven == <<"7">>

Rome == <<"R", "o", "m", "e">>

Address == <<"a", "@", "b">>

Phone == <<"5">>

GoodDate == <<"2", "0", "2", "0", "-", "0", "8", "-", "2", "4">>

NotADate == <<"n", "o", "t", "-", "a", "-", "d", "a", "t", "e">>

(* The fields a column of the input file may hold, by its label once trimmed:
   a wider choice for the tables of single calls, a narrower one for the
   five-column tables of the whole run. *)
FieldPool(name, wide) ==
    CASE Strip(name) = SubscriptionDate ->
            IF wide THEN {Empty, GoodDate, NotADate} ELSE {GoodDate, NotADate}
      [] Strip(name) = Email   -> {Empty, Address}
      [] Strip(name) = Phone1  -> IF wide THEN {Empty, Phone} ELSE {Phone}
      [] Strip(name) = City    -> {Empty, Rome}
      [] Strip(name) = Country ->
            IF wide THEN {Empty, ChilePadded, Seven} ELSE {Chile, ChilePadded, Seven}

(* The lines a file with this header may hold: one field per column. *)
RECURSIVE Lines(_, _)
Lines(header, wide) ==
    IF header = <<>> THEN {<<>>}
    ELSE {<<f>> \o rest : f \in FieldPool(Head(header), wide),
                          rest \in Lines(Tail(header), wide)}

Tables(header, wide) ==
    {[header |-> header, lines |-> l] :
        l \in UNION {[1..k -> Lines(header, wide)] : k \in 0..MaxRows}}

Headers ==
    { <<Email, Phone1>>,
      <<SubscriptionDate, Email>>,
      <<City, Country>>,
      <<<<" ", " ">> \o City, City \o <<" ">>>> }

(* The scenarios of the notebook's text: five records of which the third has
   no Email; three spellings of one country; a record repeated. *)
Scenarios ==
    { [header |-> <<Email, City>>,
       lines  |-> << <<Address, Rome>>, <<Address, Empty>>, <<Empty, Rome>>,
                     <<Address, Rome>>, <<Address, Empty>> >>],
      [header |-> <<City, Country>>,
       lines  |-> << <<Rome, Chile>>, <<Rome, ChilePadded>>, <<Rome, ChileUpper>> >>],
      [header |-> <<City, Country>>,
       lines  |-> << <<Rome, Chile>>, <<Empty, Seven>>, <<Rome, Chile>>, <<Rome, Chile>> >>] }

PipeHeaders ==
    { <<SubscriptionDate, Email, Phone1, City, Country>>,
      <<SubscriptionDate, Email, Phone1, Country>>,
      <<SubscriptionDate, Email, Phone1, <<" ">> \o City, Country \o <<" ">>>>,
      <<SubscriptionDate, <<" ">> \o Email, Phone1, City, Country>> }

ArgColumns == {SubscriptionDate, City, Country}

ArgSubsets == {<<Email, Phone1>>, <<Email>>, <<City>>}

ArgValues == {StrV(Unknown)}

----------------------------------------------------------------------------
(* The notebook as a state machine. raw is the file read, df the kernel's
   dataframe, prev the dataframe before the last call, last the last call,
   err the exception that stopped the run ("none" while it runs), pc the cell
   to run next (0 when the caller chooses the calls). *)

Call(op, cols, v) == [op |-> op, cols |-> cols, v |-> v]

NoCall == Call("read_csv", <<>>, NA)

Load(tables, start) ==
    /\ raw \in tables
    /\ df = ReadCsv(raw)
    /\ prev = df
    /\ last = NoCall
    /\ err = "none"
    /\ pc = start

(* A cell runs only while no earlier cell has raised; a cell that raises
   leaves df as it was. *)
Run(r, call, next) ==
    /\ err = "none"
    /\ df' = r.df
    /\ err' = r.err
    /\ prev' = df
    /\ last' = call
    /\ pc' = next
    /\ UNCHANGED raw

(* The six steps, called by the caller in any order with any arguments. *)
CallParseDates ==
    /\ pc = 0
    /\ \E c \in ArgColumns : Run(ParseDates(df, c), Call("parseDates", <<c>>, NA), 0)

CallDropRowsWithMissing ==
    /\ pc = 0
    /\ \E cols \in ArgSubsets :
          Run(DropRowsWithMissing(df, cols), Call("dropRowsWithMissing", cols, NA), 0)

CallDeduplicate ==
    /\ pc = 0
    /\ Run(Deduplicate(df), Call("deduplicate", <<>>, NA), 0)

CallTrimColumnNames ==
    /\ pc = 0
    /\ Run(TrimColumnNames(df), Call("trimColumnNames", <<>>, NA), 0)

CallFillMissing ==
    /\ pc = 0
    /\ \E c \in ArgColumns : \E v \in ArgValues :
          Run(FillMissing(df, c, v), Call("fillMissing", <<c>>, v), 0)

CallNormalizeCase ==
    /\ pc = 0
    /\ \E c \in ArgColumns : Run(NormalizeCase(df, c), Call("normalizeCase", <<c>>, NA), 0)

Init == Load(UNION {Tables(h, TRUE) : h \in Headers} \cup Scenarios, 0)

Next ==
    \/ CallParseDates
    \/ CallDropRowsWithMissing
    \/ CallDeduplicate
    \/ CallTrimColumnNames
    \/ CallFillMissing
    \/ CallNormalizeCase

Spec == Init /\ [][Next]_vars

(* The notebook's cells 2 to 7, run top to bottom. *)
Cell2 ==
    /\ pc = 2
    /\ Run(ParseDates(df, SubscriptionDate), Call("parseDates", <<SubscriptionDate>>, NA), 3)

Cell3 ==
    /\ pc = 3
    /\ Run(DropRowsWithMissing(df, <<Email, Phone1>>),
           Call("dropRowsWithMissing", <<Email, Phone1>>, NA), 4)

Cell4 ==
    /\ pc = 4
    /\ Run(Deduplicate(df), Call("deduplicate", <<>>, NA), 5)

Cell5 ==
    /\ pc = 5
    /\ Run(TrimColumnNames(df), Call("trimColumnNames", <<>>, NA), 6)

Cell6 ==
    /\ pc = 6
    /\ Run(FillMissing(df, City, StrV(Unknown)), Call("fillMissing", <<City>>, StrV(Unknown)), 7)

Cell7 ==
    /\ pc = 7
    /\ Run(NormalizeCase(df, Country), Call("normalizeCase", <<Country>>, NA), 8)

PipeInit == Load(UNION {Tables(h, FALSE) : h \in PipeHeaders}, 2)

PipeNext == Cell2 \/ Cell3 \/ Cell4 \/ Cell5 \/ Cell6 \/ Cell7

PipeSpec == PipeInit /\ [][PipeNext]_vars

----------------------------------------------------------------------------
(* Properties. Each is about the state right after a call: prev is the
   dataframe the call was given, df the one it left. *)

Acted(op) == last.op = op /\ err = "none"

Exists(d, cols) == \A k \in DOMAIN cols : Positions(d, cols[k]) # {}

SameShape(d, e) == d.columns = e.columns /\ Len(d.rows) = Len(e.rows)

(* Row i of d misses a value in a column labelled by cols. *)
Misses(d, i, cols) ==
    \E k \in DOMAIN cols : \E j \in Positions(d, cols[k]) : IsNA(d.rows[i][j])

(* The number of indices of keep that are at most i. *)
Rank(keep, i) == Cardinality({h \in keep : h <= i})

(* C1: dropRowsWithMissing(C) on existing columns C succeeds and returns
   exactly the records in which every column of C is present, in their
   original order and unchanged: the count never grows, no kept record misses
   a column of C, and nothing changes when no record does. *)
C1_DropRowsWithMissing ==
    (last.op = "dropRowsWithMissing" /\ Exists(prev, last.cols)) =>
        LET kept == {i \in DOMAIN prev.rows : ~Misses(prev, i, last.cols)}
        IN  /\ err = "none"
            /\ df.columns = prev.columns
            /\ Len(df.rows) = Cardinality(kept)
            /\ Len(df.rows) <= Len(prev.rows)
            /\ \A i \in kept : df.rows[Rank(kept, i)] = prev.rows[i]
            /\ \A k \in DOMAIN df.rows : ~Misses(df, k, last.cols)
            /\ (kept = DOMAIN prev.rows => df = prev)

C1_Witness ==
    /\ Acted("dropRowsWithMissing")
    /\ last.cols = <<Email>>
    /\ Len(prev.rows) = 5
    /\ IsNA(prev.rows[3][ThePosition(prev, Email)])
    /\ Len(df.rows) = 4

(* The first index of prev that holds row r. *)
FirstIndex(d, r) == CHOOSE i \in DOMAIN d.rows :
                        d.rows[i] = r /\ \A h \in 1..(i - 1) : d.rows[h] # r

(* C2: deduplicate() keeps one record of each class of identical records, the
   first, and the kept records are in the order of the input; a record with
   no earlier identical record stays. *)
C2_Deduplicate ==
    last.op = "deduplicate" =>
        /\ err = "none"
        /\ df.columns = prev.columns
        /\ \A k, l \in DOMAIN df.rows : k # l => df.rows[k] # df.rows[l]
        /\ {df.rows[k] : k \in DOMAIN df.rows} = {prev.rows[i] : i \in DOMAIN prev.rows}
        /\ \A k, l \in DOMAIN df.rows :
              k < l => FirstIndex(prev, df.rows[k]) < FirstIndex(prev, df.rows[l])

C2_Witness ==
    /\ Acted("deduplicate")
    /\ Len(prev.rows) = 4
    /\ prev.rows[1] = prev.rows[3] /\ prev.rows[1] # prev.rows[2]
    /\ df.rows = <<prev.rows[1], prev.rows[2]>>

(* C3: deduplicate() is idempotent: what one application leaves, a second
   application leaves as it is. *)
C3_DeduplicateIdempotent ==
    Acted("deduplicate") => Deduplicate(df) = Result(df, "none")

C3_Witness ==
    /\ Acted("deduplicate")
    /\ Len(df.rows) + 2 <= Len(prev.rows)
    /\ Deduplicate(df).df = df

(* C4: fillMissing(c, v) on an existing column c succeeds, sets the missing
   values of c to v, leaves its other values, every other column and the
   number and order of records as they were; afterwards c has no missing
   value. *)
C4_FillMissing ==
    (last.op = "fillMissing" /\ Exists(prev, last.cols)) =>
        LET P == Positions(prev, last.cols[1])
        IN  /\ err = "none"
            /\ SameShape(df, prev)
            /\ \A i \in DOMAIN prev.rows : \A j \in DOMAIN prev.columns :
                  df.rows[i][j] = IF j \in P /\ IsNA(prev.rows[i][j])
                                  THEN last.v
                                  ELSE prev.rows[i][j]
            /\ \A j \in DOMAIN prev.columns : j \notin P => df.dtypes[j] = prev.dtypes[j]
            /\ \A i \in DOMAIN df.rows : \A j \in P : ~IsNA(df.rows[i][j])

C4_Witness ==
    /\ Acted("fillMissing")
    /\ \E i, h \in DOMAIN prev.rows : \E j \in Positions(prev, last.cols[1]) :
          /\ IsNA(prev.rows[i][j]) /\ df.rows[i][j] = StrV(Unknown)
          /\ ~IsNA(prev.rows[h][j]) /\ df.rows[h][j] = prev.rows[h][j]

(* The values of the one column labelled c. *)
Column(d, c) == Col(d, ThePosition(d, c))

OthersUnchanged(d, e, c) ==
    \A i \in DOMAIN d.rows : \A j \in DOMAIN d.columns :
        j \notin Positions(d, c) => d.rows[i][j] = e.rows[i][j]

(* C5: parseDates never fails on a value: run on the Subscription Date column
   of the file, it succeeds, keeps every record, turns every text that is not
   a date into the missing marker and every date text into its date, and the
   run goes on to the next cell. *)
C5_ParseDatesCoerces ==
    last.op = "parseDates" =>
        /\ err = "none"
        /\ pc = 3
        /\ SameShape(df, prev)
        /\ OthersUnchanged(df, prev, SubscriptionDate)
        /\ \A i \in DOMAIN prev.rows :
              LET old == Column(prev, SubscriptionDate)[i]
                  new == Column(df, SubscriptionDate)[i]
              IN  /\ old = StrV(NotADate) => IsNA(new)
                  /\ old = StrV(GoodDate) => new = DateV(2020, 8, 24)
                  /\ new.t \in {"na", "date"}
                  /\ (old.t = "str" /\ IsNA(new)) => ~IsIsoDate(old.s)

(* The run reached its end with a record whose date could not be parsed. *)
C5_Witness ==
    /\ pc = 8 /\ err = "none"
    /\ \E i \in DOMAIN raw.lines : raw.lines[i][1] = NotADate
    /\ \E i \in DOMAIN df.rows : IsNA(Column(df, SubscriptionDate)[i])

(* C6 as stated: once a step has failed on an absent column, the caller sees
   no dataset carrying the effects of the steps before it: the kernel's
   dataframe is the one that was read. *)
C6_NoPartialOutput ==
    err = "KeyError" =>
        /\ df.columns = ReadCsv(raw).columns
        /\ df.rows = ReadCsv(raw).rows

(* C6 as amended: a step that names an absent column fails at once with
   KeyError and leaves the dataframe as it found it, so with the effects of
   the steps before it; and no later step runs. *)
C6_FailsLeavingEarlierEffects ==
    /\ (last.op # "read_csv" /\ ~Exists(prev, last.cols)) => (err = "KeyError" /\ df = prev)
    /\ err # "none" => (df = prev /\ ~ENABLED PipeNext)

C6_Witness ==
    /\ err = "KeyError"
    /\ last.op = "fillMissing"
    /\ df = prev
    /\ df # ReadCsv(raw)

Unique(d, c) == Cardinality(Positions(d, c)) = 1

(* x is text s without its surrounding whitespace, letter by letter in upper
   case: s is a whitespace, then the letters of x, then b whitespace. *)
IsTrimmedUpper(x, s) ==
    /\ \A i \in DOMAIN x : IndexIn(x[i], LowerLetters) = 0
    /\ x # <<>> => (x[1] \notin Whitespace /\ x[Len(x)] \notin Whitespace)
    /\ \E a \in 0..Len(s) :
          /\ a + Len(x) <= Len(s)
          /\ \A i \in DOMAIN s : (i <= a \/ i > a + Len(x)) => s[i] \in Whitespace
          /\ \A i \in DOMAIN x :
                \/ x[i] = s[a + i]
                \/ /\ IndexIn(s[a + i], LowerLetters) # 0
                   /\ IndexIn(x[i], UpperLetters) = IndexIn(s[a + i], LowerLetters)

(* C7: normalizeCase(column, upper) on a column that holds a text succeeds and
   replaces every text of the column by its trimmed, upper-cased form, so the
   spellings "chile", " Chile " and "CHILE" all become "CHILE"; no other
   column and no record count or order changes. *)
C7_NormalizeCase ==
    (/\ last.op = "normalizeCase"
     /\ Unique(prev, last.cols[1])
     /\ \E i \in DOMAIN prev.rows : Column(prev, last.cols[1])[i].t = "str") =>
        /\ err = "none"
        /\ SameShape(df, prev)
        /\ OthersUnchanged(df, prev, last.cols[1])
        /\ \A i \in DOMAIN prev.rows :
              LET old == Column(prev, last.cols[1])[i]
                  new == Column(df, last.cols[1])[i]
              IN  old.t = "str" =>
                     /\ new.t = "str"
                     /\ IsTrimmedUpper(new.s, old.s)
                     /\ old.s \in {Chile, ChilePadded, ChileUpper} => new.s = ChileUpper

C7_Witness ==
    /\ Acted("normalizeCase")
    /\ last.cols = <<Country>>
    /\ Len(prev.rows) = 3
    /\ Column(prev, Country) = <<StrV(Chile), StrV(ChilePadded), StrV(ChileUpper)>>
    /\ Column(df, Country) = <<StrV(ChileUpper), StrV(ChileUpper), StrV(ChileUpper)>>

(* C8: normalizeCase leaves every value of the column that is not a text (a
   number, a date, the missing marker) exactly as it was. *)
C8_NonTextUnchanged ==
    Acted("normalizeCase") =>
        \A i \in DOMAIN prev.rows :
            Column(prev, last.cols[1])[i].t # "str" =>
                Column(df, last.cols[1])[i] = Column(prev, last.cols[1])[i]

(* C9: after any sequence of the six steps every record has the dataset's
   columns, as many as the file had and in its order, and the column names
   are pairwise distinct. *)
C9_ColumnsKept ==
    /\ Len(df.columns) = Len(raw.header)
    /\ \A i \in DOMAIN df.rows : Len(df.rows[i]) = Len(df.columns)
    /\ \A j \in DOMAIN df.columns : Strip(df.columns[j]) = Strip(raw.header[j])
    /\ \A j, k \in DOMAIN df.columns : j # k => df.columns[j] # df.columns[k]

(* C10: trimColumnNames() is idempotent and changes no record value: what
   one application leaves, a second leaves as it is, and the records are
   those it was given. *)
C10_TrimIdempotent ==
    last.op = "trimColumnNames" =>
        /\ err = "none"
        /\ TrimColumnNames(df) = Result(df, "none")
        /\ df.rows = prev.rows
        /\ df.dtypes = prev.dtypes

C10_Witness ==
    /\ Acted("trimColumnNames")
    /\ df.columns # prev.columns
    /\ df.rows # <<>>
    /\ TrimColumnNames(df).df = df

(* C11: when the run has gone through cell 7, the dataframe holds no two
   records that are equal field for field: filling City and normalizing
   Country after deduplicate never make two kept records equal. *)
C11_OutputHasNoDuplicates ==
    (pc = 8 /\ err = "none") =>
        \A i, k \in DOMAIN df.rows : i # k => df.rows[i] # df.rows[k]

(* The labels the cells use are all among the file's labels once trimmed. *)
TrimmedLabelsPresent ==
    \A c \in {SubscriptionDate, Email, Phone1, City, Country} :
        \E j \in DOMAIN raw.header : Strip(raw.header[j]) = c

(* C12: on a file whose labels, once trimmed, include Subscription Date,
   Email, Phone 1, City and Country, no cell fails on an absent column: no
   cell uses a trimmed label before cell 5 has trimmed the labels. *)
C12_NoSchemaErrorWhenTrimmedLabelsPresent ==
    TrimmedLabelsPresent => err # "KeyError"

====
